---------------------------- MODULE Spec2Model ----------------------------
(***************************************************************************)
(* EasyIR: a Home Assistant integration that resolves climate and media    *)
(* player requests to infrared codes of a per-device JSON code table and   *)
(* forwards them to a remote entity through remote.send_command.           *)
(*                                                                         *)
(* JSON values are tagged records, JSON objects are sequences of key/value *)
(* pairs in file order (a Python dict enumerates in insertion order), code *)
(* strings are sequences of characters, temperatures are tenths of a       *)
(* degree.                                                                 *)
(***************************************************************************)
EXTENDS Integers, Sequences, FiniteSets, TLC

VARIABLES
    kind,               \* the platform of the config entry: "climate" | "media_player"
    controller,         \* self._controller
    device_data,        \* self._device_data, the code table
    hvac_mode,          \* self._attr_hvac_mode
    fan_mode,           \* self._attr_fan_mode
    target_temperature, \* self._attr_target_temperature (tenths of a degree)
    current_temperature,\* self._attr_current_temperature: <<>> (None) or <<tenths>>
    state,              \* self._attr_state (media player)
    source,             \* self._attr_source (media player)
    ha_state,           \* what async_write_ha_state last published: <<>> or <<snapshot>>
    tasks,              \* requests suspended at the awaited hass.services.async_call
    done,               \* the request or event that finished last
    overlapping,        \* the host starts a request while another one is suspended
    file,               \* platform setup: what open(json_path) and json.load find
    setup,              \* platform setup: "pending" | "returned" | "raised"
    entities,           \* platform setup: the entities given to async_add_entities
    log,                \* platform setup: the errors logged
    step,               \* config flow: the step whose form is shown, or how it ended
    init_info,          \* config flow: self.init_info
    last_search_query,  \* config flow: self.last_search_query
    cached_all_codes,   \* config flow: self.cached_all_codes
    selected_controller,\* config flow: self.selected_controller
    selected_sensor,    \* config flow: self.selected_sensor
    selected_code,      \* config flow: self.selected_code (<<>> for None)
    errors,             \* config flow: errors["base"] of the form shown ("" for none)
    form_options,       \* config flow: the device codes the controller form offers
    disk,               \* config flow: the code files of the device type on disk
    entry,              \* config flow: the config entry created: <<>> or <<data>>
    flow_call,          \* config flow: the service calls of the test actions
    picked,             \* config flow: the input last submitted on the controller step
    last,               \* config flow: the submission handled last
    tx_code,            \* transmitters alone: the code value drawn
    tx_by,              \* transmitters alone: the transmitter that sends it
    tx_call             \* transmitters alone: the transmissions made, in order

entity_vars == <<kind, controller, device_data, hvac_mode, fan_mode, target_temperature,
                 current_temperature, state, source, ha_state, tasks, done, overlapping>>

setup_vars == <<file, setup, entities, log>>

flow_vars == <<step, init_info, last_search_query, cached_all_codes,
               selected_controller, selected_sensor, selected_code, errors,
               form_options, disk, entry, flow_call, picked, last>>

tx_vars == <<tx_code, tx_by, tx_call>>

vars == <<entity_vars, setup_vars, flow_vars, tx_vars>>

---------------------------------------------------------------------------
(* Bounds of the model *)

\* longest code string the transmitters are tried on
MaxLen == 5

\* requests in flight at once where the host lets requests overlap
MaxTasks == 2

---------------------------------------------------------------------------
(* JSON values *)

None == [ty |-> "none", chars |-> <<>>, items |-> <<>>]

JStr(cs) == [ty |-> "str", chars |-> cs, items |-> <<>>]

JNum(cs) == [ty |-> "num", chars |-> cs, items |-> <<>>]

JList(xs) == [ty |-> "list", chars |-> <<>>, items |-> xs]

\* Python truthiness of a code value: None, "" and [] are falsy
Truthy(v) ==
    CASE v.ty = "none" -> FALSE
      [] v.ty = "str"  -> Len(v.chars) > 0
      [] v.ty = "list" -> Len(v.items) > 0
      [] OTHER         -> TRUE

KV(k, v) == [k |-> k, v |-> v]

\* key in d
Has(d, k) == \E i \in 1..Len(d) : d[i].k = k

\* d[key], for a key that is in d
Get(d, k) == d[CHOOSE i \in 1..Len(d) : d[i].k = k].v

\* d.get(key, default)
GetOr(d, k, default) == IF Has(d, k) THEN Get(d, k) ELSE default

\* list(d.keys())
Keys(d) == [i \in 1..Len(d) |-> d[i].k]

\* d[key] = value of a dict under construction: overwrite in place, else append
Put(d, k, v) ==
    IF Has(d, k)
    THEN [i \in 1..Len(d) |-> IF d[i].k = k THEN KV(k, v) ELSE d[i]]
    ELSE Append(d, KV(k, v))

---------------------------------------------------------------------------
(* climate.py: mode maps *)

HVAC_MODES_MAP ==
    << KV("off", "HVACMode.OFF"),
       KV("cool", "HVACMode.COOL"),
       KV("heat", "HVACMode.HEAT"),
       KV("auto", "HVACMode.AUTO"),
       KV("dry", "HVACMode.DRY"),
       KV("fan", "HVACMode.FAN_ONLY"),
       KV("fan_only", "HVACMode.FAN_ONLY") >>

RECURSIVE Invert(_, _)
\* {v: k for k, v in d.items()}: a later item overwrites an earlier one
Invert(d, acc) ==
    IF d = <<>> THEN acc
    ELSE Invert(Tail(d), Put(acc, Head(d).v, Head(d).k))

HVAC_MODES_INV_MAP == Invert(HVAC_MODES_MAP, <<>>)

\* the None that dict.get returns for a missing key; no JSON key equals it
NoneKey == "<None>"

---------------------------------------------------------------------------
(* str(int(temperature)) *)

Digit == <<"0", "1", "2", "3", "4", "5", "6", "7", "8", "9">>

\* int(x) of a float given in tenths: truncation toward zero
IntOf(t) == IF t >= 0 THEN t \div 10 ELSE -((-t) \div 10)

RECURSIVE StrNat(_)
StrNat(n) == IF n < 10 THEN Digit[n + 1] ELSE StrNat(n \div 10) \o Digit[(n % 10) + 1]

\* str(n) of an int
StrOf(n) == IF n < 0 THEN "-" \o StrNat(-n) ELSE StrNat(n)

---------------------------------------------------------------------------
(* The transmitters *)

B64 == <<"b", "6", "4", ":">>

\* c.startswith(prefix)
StartsWith(cs, prefix) ==
    /\ Len(cs) >= Len(prefix)
    /\ SubSeq(cs, 1, Len(prefix)) = prefix

\* as climate_final_commands, without the test for the prefix
climate_final_commands_always(code) ==
    LET lst == IF code.ty = "str" THEN <<code>> ELSE code.items
    IN  [i \in 1..Len(lst) |->
            IF lst[i].ty = "str" THEN JStr(B64 \o lst[i].chars) ELSE lst[i]]

\* climate.py _send_command: the final_commands list
climate_final_commands(code) ==
    LET lst == IF code.ty = "str" THEN <<code>> ELSE code.items
    IN  [i \in 1..Len(lst) |->
            IF lst[i].ty = "str" /\ ~StartsWith(lst[i].chars, B64)
            THEN JStr(B64 \o lst[i].chars)
            ELSE lst[i]]

\* as climate_send_command, with the call made a second time
climate_send_command_retry(code, ctl) ==
    << [domain |-> "remote", service |-> "send_command",
        entity_id |-> ctl, command |-> climate_final_commands(code)],
       [domain |-> "remote", service |-> "send_command",
        entity_id |-> ctl, command |-> climate_final_commands(code)] >>

\* climate.py _send_command: the service calls it issues
climate_send_command(code, ctl) ==
    << [domain |-> "remote", service |-> "send_command",
        entity_id |-> ctl, command |-> climate_final_commands(code)] >>

\* as media_final_commands, without wrapping a single string in a list: the
\* loop then runs over the characters of the string
media_final_commands_unwrapped(code) ==
    LET lst == IF code.ty = "str"
               THEN [i \in 1..Len(code.chars) |-> JStr(<<code.chars[i]>>)]
               ELSE code.items
    IN  [i \in 1..Len(lst) |->
            IF lst[i].ty = "str" /\ ~StartsWith(lst[i].chars, B64)
            THEN JStr(B64 \o lst[i].chars)
            ELSE lst[i]]

\* media_player.py _send_raw_code: the final_commands list
media_final_commands(code) ==
    LET lst == IF code.ty = "str" THEN <<code>> ELSE code.items
    IN  [i \in 1..Len(lst) |->
            IF lst[i].ty = "str" /\ ~StartsWith(lst[i].chars, B64)
            THEN JStr(B64 \o lst[i].chars)
            ELSE lst[i]]

\* media_player.py _send_raw_code: the service calls it issues
media_send_raw_code(code, ctl) ==
    << [domain |-> "remote", service |-> "send_command",
        entity_id |-> ctl, command |-> media_final_commands(code)] >>

---------------------------------------------------------------------------
(* climate.py _async_send_ir *)

\* The outcome of one run: the exception raised ("none" when it returns), the
\* code value selected (None when no lookup reached one), the keys it looked
\* up, and the service calls issued.
Outcome(exc, code, path, calls) ==
    [exc |-> exc, code |-> code, path |-> path, calls |-> calls]

\* as async_send_ir_off, without the test that the command is non-empty
async_send_ir_off_unchecked(data, ctl) ==
    IF ~Has(data, "commands")
    THEN Outcome("KeyError", None, <<"commands">>, <<>>)
    ELSE LET command == GetOr(Get(data, "commands"), "off", None)
         IN  Outcome("none", command, <<"commands", "off">>,
                     climate_send_command(command, ctl))

async_send_ir_off(data, ctl) ==
    IF ~Has(data, "commands")
    THEN Outcome("KeyError", None, <<"commands">>, <<>>)
    ELSE LET command == GetOr(Get(data, "commands"), "off", None)
         IN  IF Truthy(command)
             THEN Outcome("none", command, <<"commands", "off">>,
                          climate_send_command(command, ctl))
             ELSE Outcome("none", command, <<"commands", "off">>, <<>>)

\* as mode_key_of, with a default mode for a mode that has no key
mode_key_of_default(mode) == GetOr(HVAC_MODES_INV_MAP, mode, "cool")

\* mode_key = HVAC_MODES_INV_MAP.get(self._attr_hvac_mode)
mode_key_of(mode) == GetOr(HVAC_MODES_INV_MAP, mode, NoneKey)

\* temp_key = str(int(self._attr_target_temperature))
temp_key_of(temp) == StrOf(IntOf(temp))

\* available_fans[0], the fan used when the entity's fan is not under the mode
fallback_fan(fans) == Keys(fans)[1]

async_send_ir_on(data, mode, fan, temp, ctl) ==
    LET mode_key == mode_key_of(mode)
        temp_key == temp_key_of(temp)
        commands == GetOr(data, "commands", <<>>)
    IN  IF ~Has(commands, mode_key)
        THEN Outcome("none", None, <<"commands", mode_key>>, <<>>)
        ELSE
        LET fans == Get(commands, mode_key)
        IN  IF ~Has(fans, fan) /\ Keys(fans) = <<>>
            THEN Outcome("IndexError", None, <<"commands", mode_key>>, <<>>)
            ELSE
            LET fan_key == IF Has(fans, fan) THEN fan ELSE fallback_fan(fans)
                temps == Get(fans, fan_key)
                path == <<"commands", mode_key, fan_key, temp_key>>
            IN  IF ~Has(temps, temp_key)
                THEN Outcome("none", None, path, <<>>)
                ELSE
                LET code == Get(temps, temp_key)
                IN  IF Truthy(code)
                    THEN Outcome("none", code, path, climate_send_command(code, ctl))
                    ELSE Outcome("none", code, path, <<>>)

async_send_ir(data, mode, fan, temp, ctl) ==
    IF mode = "HVACMode.OFF"
    THEN async_send_ir_off(data, ctl)
    ELSE async_send_ir_on(data, mode, fan, temp, ctl)

---------------------------------------------------------------------------
(* media_player.py _send_command *)

\* as media_send_command, with "off" falling back to "power" as "on" does
media_send_command_off_retry(data, command_key, ctl) ==
    LET commands == GetOr(data, "commands", <<>>)
        first == GetOr(commands, command_key, None)
        retry == ~Truthy(first) /\ command_key \in {"on", "off"}
        code == IF retry THEN GetOr(commands, "power", None) ELSE first
        path == IF retry THEN <<"commands", command_key, "power">>
                ELSE <<"commands", command_key>>
    IN  IF Truthy(code)
        THEN Outcome("none", code, path, media_send_raw_code(code, ctl))
        ELSE Outcome("none", code, path, <<>>)

media_send_command(data, command_key, ctl) ==
    LET commands == GetOr(data, "commands", <<>>)
        first == GetOr(commands, command_key, None)
        retry == ~Truthy(first) /\ command_key = "on"
        code == IF retry THEN GetOr(commands, "power", None) ELSE first
        path == IF retry THEN <<"commands", command_key, "power">>
                ELSE <<"commands", command_key>>
    IN  IF Truthy(code)
        THEN Outcome("none", code, path, media_send_raw_code(code, ctl))
        ELSE Outcome("none", code, path, <<>>)

---------------------------------------------------------------------------
(* Code tables.  Names (modes, fans, temperatures, actions, sources) are   *)
(* strings; code strings are character sequences.                          *)

S2(a, b) == JStr(<<a, b>>)

P2(a, b) == JStr(B64 \o <<a, b>>)

\* {"fanModes": ["low", "auto"]}: no "commands" key at all
ClimateNoCommands ==
    << KV("fanModes", <<"low", "auto">>) >>

\* {"commands": {"off": "AABB"}}
ClimateOffOnly ==
    << KV("commands", << KV("off", JStr(<<"A", "A", "B", "B">>)) >>) >>

\* {"commands": {"cool": {"auto": {"24": "CCDD"}}}}
ClimateCoolOnly ==
    << KV("commands",
          << KV("cool", << KV("auto", << KV("24", JStr(<<"C", "C", "D", "D">>)) >>) >>) >>) >>

\* a table with list codes, prefixed codes, an empty code, a mode without fans
\* and the mode key "fan"
ClimateRich ==
    << KV("operationModes", <<"cool", "heat", "fan">>),
       KV("fanModes", <<"low", "high">>),
       KV("commands",
          << KV("off", JList(<<P2("O", "1"), S2("O", "2")>>)),
             KV("cool",
                << KV("low", << KV("24", S2("C", "1")), KV("25", P2("C", "2")) >>),
                   KV("high", << KV("24", JList(<<S2("C", "3"), P2("C", "4")>>)),
                                 KV("25", JStr(<<>>)) >>) >>),
             KV("heat", <<>>),
             KV("fan", << KV("low", << KV("24", S2("F", "1")) >>) >>) >>) >>

\* a table whose "off" code is empty and whose fans are not in lexical order
ClimateEmptyOff ==
    << KV("operationModes", <<"fan_only", "heat">>),
       KV("commands",
          << KV("off", JStr(<<>>)),
             KV("fan_only",
                << KV("high", << KV("25", JList(<<>>)), KV("24", S2("G", "2")) >>),
                   KV("auto", << KV("24", S2("G", "1")) >>) >>),
             KV("heat",
                << KV("low", << KV("25", S2("H", "1")) >>),
                   KV("high", << KV("24", S2("H", "2")), KV("25", S2("H", "3")) >>) >>) >>) >>

ClimateTables ==
    << ClimateNoCommands, ClimateOffOnly, ClimateCoolOnly, ClimateRich, ClimateEmptyOff >>

\* {}
MediaNoCommands == << KV("manufacturer", "none") >>

\* {"commands": {"power": "GGHH"}}
MediaPowerOnly ==
    << KV("commands", << KV("power", JStr(<<"G", "G", "H", "H">>)) >>) >>

MediaRich ==
    << KV("commands",
          << KV("on", S2("N", "1")),
             KV("off", JList(<<P2("F", "1"), S2("F", "2")>>)),
             KV("power", S2("P", "W")),
             KV("volumeUp", S2("V", "U")),
             KV("volumeDown", P2("V", "D")),
             KV("mute", JStr(<<>>)),
             KV("play", S2("P", "L")),
             KV("pause", S2("P", "A")),
             KV("sources", << KV("HDMI1", S2("S", "1")), KV("TV", JStr(<<>>)) >>) >>) >>

\* "on" and "off" present but empty, "power" present
MediaEmptyOn ==
    << KV("commands",
          << KV("on", JStr(<<>>)),
             KV("off", JList(<<>>)),
             KV("power", P2("P", "W")),
             KV("stop", S2("S", "T")),
             KV("sources", << KV("TV", JList(<<>>)), KV("USB", JList(<<S2("U", "1"), S2("U", "2")>>)) >>) >>) >>

\* "on" empty and "power" empty
MediaNoPower ==
    << KV("commands",
          << KV("on", JList(<<>>)), KV("power", JStr(<<>>)), KV("off", S2("F", "3")) >>) >>

MediaTables ==
    << MediaNoCommands, MediaPowerOnly, MediaRich, MediaEmptyOn, MediaNoPower >>

\* the requests the host may make
HVACModes ==
    {"HVACMode.OFF", "HVACMode.COOL", "HVACMode.HEAT", "HVACMode.FAN_ONLY",
     "HVACMode.HEAT_COOL"}

FanModes == {"auto", "low", "high"}

\* 24.0, 24.5 and 25.0 degrees
Temperatures == {240, 245, 250}

Sources == {"HDMI1", "TV", "USB"}

Controllers == {"remote.rm4_mini"}

---------------------------------------------------------------------------
(* Entity state *)

NoSource == NoneKey

\* the user_input of the controller form: controller, sensor, search text and
\* the device code selected (<<>> when the form was sent without one)
Input(ctl, sensor, search, code) ==
    [controller |-> ctl, sensor |-> sensor, search |-> search, code |-> code]

NoInput == Input(NoneKey, NoneKey, <<>>, <<>>)

\* a form submission: the step it was sent to, the test action it carried,
\* and how the download it started ended ("none" when it started none)
Submission(on, action, download) ==
    [on |-> on, action |-> action, download |-> download]

NoSubmission == Submission("none", "", "none")

Snap(hm, fm, tt, ct, st, src) ==
    [hvac_mode |-> hm, fan_mode |-> fm, target_temperature |-> tt,
     current_temperature |-> ct, state |-> st, source |-> src]

\* the attributes of the entity as they are now
Snapshot ==
    Snap(hvac_mode, fan_mode, target_temperature, current_temperature, state, source)

ArgS(s) == [s |-> s, n |-> 0]

ArgN(n) == [s |-> "", n |-> n]

\* One request: the handler and its argument, the attributes the resolver and
\* the transmitter ran with, the outcome of the lookup, and the steps taken
\* so far, in order.
Req(op, arg, at, out, steps) ==
    [op |-> op, arg |-> arg, at |-> at, exc |-> out.exc, code |-> out.code,
     path |-> out.path, calls |-> out.calls, steps |-> steps]

NoRequest ==
    Req("none", ArgS(""), Snap("HVACMode.OFF", "auto", 0, <<>>, "off", NoSource),
        Outcome("none", None, <<>>, <<>>), <<>>)

\* The host delivers a request to an entity that is registered.  It delivers
\* one request at a time (a request starts when no other request is suspended
\* at its service call) or, where requests overlap, starts a request while
\* fewer than MaxTasks requests are in flight.
Idle ==
    /\ entities # <<>>
    /\ IF overlapping THEN Len(tasks) < MaxTasks ELSE tasks = <<>>

Remove(s, i) == [j \in 1..(Len(s) - 1) |-> IF j < i THEN s[j] ELSE s[j + 1]]

\* climate.py __init__: the mode names of operationModes that the map knows
advertised_mode_names(data) ==
    SelectSeq(GetOr(data, "operationModes", <<>>), LAMBDA mode : Has(HVAC_MODES_MAP, mode))

\* climate.py __init__: self._attr_hvac_modes
hvac_modes(data) ==
    LET names == advertised_mode_names(data)
        modes == [k \in 1..Len(names) |-> Get(HVAC_MODES_MAP, names[k])]
    IN  IF /\ Has(GetOr(data, "commands", <<>>), "off")
           /\ \A k \in 1..Len(modes) : modes[k] # "HVACMode.OFF"
        THEN Append(modes, "HVACMode.OFF")
        ELSE modes

\* climate.py __init__: target temperature 24
InitialTargetTemperature == 240

\* climate.py __init__: raw_fan_modes[0] if raw_fan_modes else "auto"
InitialFanMode(data) ==
    LET raw_fan_modes == GetOr(data, "fanModes", <<>>)
    IN  IF raw_fan_modes # <<>> THEN raw_fan_modes[1] ELSE "auto"

\* no config flow is running: the entry exists already
FlowIdle ==
    /\ step = "none"
    /\ init_info = <<>>
    /\ last_search_query = <<>>
    /\ cached_all_codes = <<>>
    /\ selected_controller = NoneKey
    /\ selected_sensor = NoneKey
    /\ selected_code = <<>>
    /\ errors = ""
    /\ form_options = {}
    /\ disk = <<>>
    /\ entry = <<>>
    /\ flow_call = <<>>
    /\ picked = NoInput
    /\ last = NoSubmission

TxIdle ==
    /\ tx_code = None
    /\ tx_by = "none"
    /\ tx_call = <<>>

\* the platform has loaded the file and registered its one entity
SetUp ==
    /\ file = "json_object"
    /\ setup = "returned"
    /\ entities = <<kind>>
    /\ log = <<>>

Init ==
    /\ kind \in {"climate", "media_player"}
    /\ controller \in Controllers
    /\ \E i \in 1..Len(ClimateTables) : \E j \in 1..Len(MediaTables) :
          device_data = IF kind = "climate" THEN ClimateTables[i] ELSE MediaTables[j]
    /\ hvac_mode = "HVACMode.OFF"
    /\ target_temperature = InitialTargetTemperature
    /\ current_temperature = <<>>
    /\ fan_mode = InitialFanMode(device_data)
    /\ state = "off"
    /\ source = NoSource
    /\ ha_state = <<>>
    /\ tasks = <<>>
    /\ done = NoRequest
    /\ overlapping = FALSE
    /\ SetUp
    /\ FlowIdle
    /\ TxIdle

---------------------------------------------------------------------------
(* climate.py: the request handlers *)

\* as ClimateHandler, with the attributes put back when the lookup finds no
\* code to send
ClimateHandler_rollback(op, arg, hm, fm, tt) ==
    LET out == async_send_ir(device_data, hm, fm, tt, controller)
        at == Snap(hm, fm, tt, current_temperature, state, source)
        miss == out.calls = <<>>
    IN  /\ kind = "climate"
        /\ Idle
        /\ hvac_mode' = IF miss THEN hvac_mode ELSE hm
        /\ fan_mode' = IF miss THEN fan_mode ELSE fm
        /\ target_temperature' = IF miss THEN target_temperature ELSE tt
        /\ UNCHANGED <<kind, controller, device_data, overlapping,
                       current_temperature, state, source>>
        /\ UNCHANGED <<setup_vars, flow_vars, tx_vars>>
        /\ CASE out.exc # "none" ->
                  /\ done' = Req(op, arg, at, out, <<"update", "resolve", "raise">>)
                  /\ UNCHANGED <<tasks, ha_state>>
             [] out.exc = "none" /\ out.calls # <<>> ->
                  /\ tasks' = Append(tasks,
                        Req(op, arg, at, out, <<"update", "resolve", "transmit">>))
                  /\ UNCHANGED <<done, ha_state>>
             [] OTHER ->
                  /\ done' = Req(op, arg, at, out, <<"update", "resolve", "publish">>)
                  /\ ha_state' = <<Snapshot>>
                  /\ UNCHANGED tasks

\* The part the three handlers share: the attribute is already assigned (hm,
\* fm, tt are the attributes after the assignment), then await
\* self._async_send_ir(), then self.async_write_ha_state().  A lookup that
\* raises ends the handler there; a lookup that transmits suspends the
\* handler at the awaited service call.
ClimateHandler(op, arg, hm, fm, tt) ==
    LET out == async_send_ir(device_data, hm, fm, tt, controller)
        at == Snap(hm, fm, tt, current_temperature, state, source)
    IN  /\ kind = "climate"
        /\ Idle
        /\ hvac_mode' = hm
        /\ fan_mode' = fm
        /\ target_temperature' = tt
        /\ UNCHANGED <<kind, controller, device_data, overlapping,
                       current_temperature, state, source>>
        /\ UNCHANGED <<setup_vars, flow_vars, tx_vars>>
        /\ CASE out.exc # "none" ->
                  /\ done' = Req(op, arg, at, out, <<"update", "resolve", "raise">>)
                  /\ UNCHANGED <<tasks, ha_state>>
             [] out.exc = "none" /\ out.calls # <<>> ->
                  /\ tasks' = Append(tasks,
                        Req(op, arg, at, out, <<"update", "resolve", "transmit">>))
                  /\ UNCHANGED <<done, ha_state>>
             [] OTHER ->
                  /\ done' = Req(op, arg, at, out, <<"update", "resolve", "publish">>)
                  /\ ha_state' = <<at>>
                  /\ UNCHANGED tasks

async_set_hvac_mode(m) ==
    ClimateHandler("set_hvac_mode", ArgS(m), m, fan_mode, target_temperature)

\* kwargs.get(ATTR_TEMPERATURE) is a temperature
async_set_temperature(t) ==
    ClimateHandler("set_temperature", ArgN(t), hvac_mode, fan_mode, t)

\* kwargs.get(ATTR_TEMPERATURE) is None: the handler does nothing
async_set_temperature_none ==
    /\ kind = "climate"
    /\ Idle
    /\ done' = Req("set_temperature", ArgS("None"), Snapshot,
                   Outcome("none", None, <<>>, <<>>), <<>>)
    /\ UNCHANGED <<kind, controller, device_data, overlapping,
                       current_temperature, hvac_mode, fan_mode,
                   target_temperature, state, source, ha_state, tasks>>
    /\ UNCHANGED <<setup_vars, flow_vars, tx_vars>>

async_set_fan_mode(f) ==
    ClimateHandler("set_fan_mode", ArgS(f), hvac_mode, f, target_temperature)

---------------------------------------------------------------------------
(* climate.py _on_temp_sensor_change *)

STATE_UNAVAILABLE == <<"u", "n", "a", "v", "a", "i", "l", "a", "b", "l", "e">>

STATE_UNKNOWN == <<"u", "n", "k", "n", "o", "w", "n">>

IsDigit(c) == \E d \in 1..Len(Digit) : Digit[d] = c

DigitVal(c) == (CHOOSE d \in 1..Len(Digit) : Digit[d] = c) - 1

RECURSIVE NatOf(_)
\* the number a string of digits writes
NatOf(ds) ==
    IF ds = <<>> THEN 0
    ELSE NatOf(SubSeq(ds, 1, Len(ds) - 1)) * 10 + DigitVal(ds[Len(ds)])

RECURSIVE Strip(_)
\* s.strip() for blanks
Strip(cs) ==
    IF cs = <<>> THEN cs
    ELSE IF Head(cs) = " " THEN Strip(Tail(cs))
    ELSE IF cs[Len(cs)] = " " THEN Strip(SubSeq(cs, 1, Len(cs) - 1))
    ELSE cs

\* float(s) of a string of blanks, a sign, digits and points, in tenths with
\* the digits after the first decimal cut: <<value>>, or <<>> where float
\* raises ValueError.  (Exponents, "inf", "nan" and "_" are not read: no
\* sensor state drawn here has them.)
float_of(cs) ==
    LET t == Strip(cs)
        signed == t # <<>> /\ t[1] \in {"-", "+"}
        u == IF signed THEN Tail(t) ELSE t
        points == {i \in 1..Len(u) : u[i] = "."}
        point == IF points = {} THEN Len(u) + 1 ELSE CHOOSE i \in points : TRUE
        whole == SubSeq(u, 1, point - 1)
        frac == SubSeq(u, point + 1, Len(u))
        ok == /\ Cardinality(points) <= 1
              /\ \A i \in 1..Len(whole) : IsDigit(whole[i])
              /\ \A i \in 1..Len(frac) : IsDigit(frac[i])
              /\ Len(whole) + Len(frac) > 0
        tenths == NatOf(whole) * 10 + (IF frac = <<>> THEN 0 ELSE DigitVal(frac[1]))
    IN  IF ~ok THEN <<>>
        ELSE IF signed /\ t[1] = "-" THEN <<-tenths>> ELSE <<tenths>>

\* What the callback does with event.data.get("new_state") (<<>> for None,
\* <<state>> otherwise) and the current temperature: the exception that leaves
\* it, the current temperature after it, and whether it wrote the state.
SensorOutcome(exc, ct, write) == [exc |-> exc, ct |-> ct, write |-> write]

\* as temp_sensor_change, without the try / except ValueError
temp_sensor_change_uncaught(new_state, ct) ==
    IF new_state = <<>> \/ new_state[1] \in {STATE_UNAVAILABLE, STATE_UNKNOWN}
    THEN SensorOutcome("none", ct, FALSE)
    ELSE IF float_of(new_state[1]) = <<>>
    THEN SensorOutcome("ValueError", ct, FALSE)
    ELSE SensorOutcome("none", float_of(new_state[1]), TRUE)

temp_sensor_change(new_state, ct) ==
    IF new_state = <<>> \/ new_state[1] \in {STATE_UNAVAILABLE, STATE_UNKNOWN}
    THEN SensorOutcome("none", ct, FALSE)
    ELSE IF float_of(new_state[1]) = <<>>
    THEN SensorOutcome("none", ct, FALSE)
    ELSE SensorOutcome("none", float_of(new_state[1]), TRUE)

\* the new_state of the events the sensor sends: None, "unavailable",
\* "unknown", "21.5", "22", " 23", "-3.5", "abc", "", "2.1.5", "on"
SensorEvents ==
    << <<>>,
       <<STATE_UNAVAILABLE>>,
       <<STATE_UNKNOWN>>,
       << <<"2", "1", ".", "5">> >>,
       << <<"2", "2">> >>,
       << <<" ", "2", "3">> >>,
       << <<"-", "3", ".", "5">> >>,
       << <<"a", "b", "c">> >>,
       << <<>> >>,
       << <<"2", ".", "1", ".", "5">> >>,
       << <<"o", "n">> >> >>

\* The callback runs for the i-th event.  It is a @callback: it runs to its
\* end without suspending, whether or not a request is suspended.
on_temp_sensor_change(i) ==
    LET out == temp_sensor_change(SensorEvents[i], current_temperature)
        at == Snap(hvac_mode, fan_mode, target_temperature, out.ct, state, source)
    IN  /\ kind = "climate"
        /\ entities # <<>>
        /\ current_temperature' = out.ct
        /\ ha_state' = IF out.write THEN <<at>> ELSE ha_state
        /\ done' = Req("sensor_event", ArgN(i), at, Outcome(out.exc, None, <<>>, <<>>),
                       IF out.exc # "none" THEN <<"raise">>
                       ELSE IF out.write THEN <<"update", "publish">> ELSE <<>>)
        /\ UNCHANGED <<kind, controller, device_data, overlapping, hvac_mode,
                       fan_mode, target_temperature, state, source, tasks>>
        /\ UNCHANGED <<setup_vars, flow_vars, tx_vars>>

---------------------------------------------------------------------------
(* media_player.py: the request handlers *)

\* A handler that only awaits self._send_command(key): volume, mute, play,
\* pause, stop.  It assigns nothing and publishes nothing.
MediaKeyHandler(op, arg, key) ==
    LET out == media_send_command(device_data, key, controller)
    IN  /\ kind = "media_player"
        /\ Idle
        /\ UNCHANGED <<kind, controller, device_data, overlapping,
                       current_temperature, hvac_mode, fan_mode,
                       target_temperature, state, source, ha_state>>
        /\ UNCHANGED <<setup_vars, flow_vars, tx_vars>>
        /\ IF out.calls # <<>>
           THEN /\ tasks' = Append(tasks,
                      Req(op, arg, Snapshot, out, <<"resolve", "transmit">>))
                /\ UNCHANGED done
           ELSE /\ done' = Req(op, arg, Snapshot, out, <<"resolve">>)
                /\ UNCHANGED tasks

\* as MediaPowerHandler, with the state assigned before the command is sent
MediaPowerHandler_assign_first(op, key, st) ==
    LET out == media_send_command(device_data, key, controller)
        at == Snap(hvac_mode, fan_mode, target_temperature, current_temperature, st,
                  source)
    IN  /\ kind = "media_player"
        /\ Idle
        /\ UNCHANGED <<kind, controller, device_data, overlapping,
                       current_temperature, hvac_mode, fan_mode,
                       target_temperature, source>>
        /\ UNCHANGED <<setup_vars, flow_vars, tx_vars>>
        /\ state' = st
        /\ IF out.calls # <<>>
           THEN /\ tasks' = Append(tasks,
                      Req(op, ArgS(st), at, out, <<"update", "resolve", "transmit">>))
                /\ UNCHANGED <<done, ha_state>>
           ELSE /\ ha_state' = <<at>>
                /\ done' = Req(op, ArgS(st), at, out, <<"update", "resolve", "publish">>)
                /\ UNCHANGED tasks

\* async_turn_on and async_turn_off: await self._send_command(key), then
\* self._attr_state = st, then self.async_write_ha_state().  A lookup that
\* transmits suspends the handler before the assignment.
MediaPowerHandler(op, key, st) ==
    LET out == media_send_command(device_data, key, controller)
    IN  /\ kind = "media_player"
        /\ Idle
        /\ UNCHANGED <<kind, controller, device_data, overlapping,
                       current_temperature, hvac_mode, fan_mode,
                       target_temperature, source>>
        /\ UNCHANGED <<setup_vars, flow_vars, tx_vars>>
        /\ IF out.calls # <<>>
           THEN /\ tasks' = Append(tasks,
                      Req(op, ArgS(st), Snapshot, out, <<"resolve", "transmit">>))
                /\ UNCHANGED <<done, state, ha_state>>
           ELSE /\ state' = st
                /\ ha_state' = <<Snap(hvac_mode, fan_mode, target_temperature,
                                   current_temperature, st, source)>>
                /\ done' = Req(op, ArgS(st), Snapshot, out,
                               <<"resolve", "update", "publish">>)
                /\ UNCHANGED tasks

async_turn_on == MediaPowerHandler("turn_on", "on", "on")

async_turn_off == MediaPowerHandler("turn_off", "off", "off")

async_volume_up == MediaKeyHandler("volume_up", ArgS(""), "volumeUp")

async_volume_down == MediaKeyHandler("volume_down", ArgS(""), "volumeDown")

async_mute_volume(mute) ==
    MediaKeyHandler("mute_volume", ArgS(IF mute THEN "True" ELSE "False"), "mute")

async_media_play == MediaKeyHandler("media_play", ArgS(""), "play")

async_media_pause == MediaKeyHandler("media_pause", ArgS(""), "pause")

async_media_stop == MediaKeyHandler("media_stop", ArgS(""), "stop")

\* async_select_source: the lookup in commands.sources; a source that is
\* there is sent whatever its code, and the handler suspends at the call; a
\* source that is not there ends the handler with nothing done.
select_source_lookup(data, src, ctl) ==
    LET sources == GetOr(GetOr(data, "commands", <<>>), "sources", <<>>)
    IN  IF Has(sources, src)
        THEN Outcome("none", Get(sources, src), <<"commands", "sources", src>>,
                     media_send_raw_code(Get(sources, src), ctl))
        ELSE Outcome("none", None, <<"commands", "sources", src>>, <<>>)

async_select_source(src) ==
    LET out == select_source_lookup(device_data, src, controller)
    IN  /\ kind = "media_player"
        /\ Idle
        /\ UNCHANGED <<kind, controller, device_data, overlapping,
                       current_temperature, hvac_mode, fan_mode,
                       target_temperature, state, source, ha_state>>
        /\ UNCHANGED <<setup_vars, flow_vars, tx_vars>>
        /\ IF out.calls # <<>>
           THEN /\ tasks' = Append(tasks,
                      Req("select_source", ArgS(src), Snapshot, out,
                          <<"resolve", "transmit">>))
                /\ UNCHANGED done
           ELSE /\ done' = Req("select_source", ArgS(src), Snapshot, out, <<"resolve">>)
                /\ UNCHANGED tasks

---------------------------------------------------------------------------
(* The awaited hass.services.async_call of a suspended request ends *)

ClimateOps == {"set_hvac_mode", "set_temperature", "set_fan_mode"}

PowerOps == {"turn_on", "turn_off"}

\* The call returns and the handler runs to its end: a climate handler
\* publishes; turn on/off and select source assign their attribute and
\* publish; the other media player handlers end.
ServiceCallReturns(i) ==
    LET t == tasks[i]
        st == IF t.op \in PowerOps THEN t.arg.s ELSE state
        src == IF t.op = "select_source" THEN t.arg.s ELSE source
        after == Snap(hvac_mode, fan_mode, target_temperature, current_temperature,
                      st, src)
    IN  /\ i \in 1..Len(tasks)
        /\ tasks' = Remove(tasks, i)
        /\ state' = st
        /\ source' = src
        /\ UNCHANGED <<kind, controller, device_data, overlapping,
                       current_temperature, hvac_mode, fan_mode,
                       target_temperature>>
        /\ UNCHANGED <<setup_vars, flow_vars, tx_vars>>
        /\ CASE t.op \in ClimateOps ->
                  /\ ha_state' = <<after>>
                  /\ done' = [t EXCEPT !.steps = Append(@, "publish")]
             [] t.op \in PowerOps \cup {"select_source"} ->
                  /\ ha_state' = <<after>>
                  /\ done' = [t EXCEPT !.steps = @ \o <<"update", "publish">>]
             [] OTHER ->
                  /\ done' = t
                  /\ UNCHANGED ha_state

\* The call raises: the exception propagates out of the handler, which
\* neither assigns nor publishes anything more.
ServiceCallFails(i) ==
    LET t == tasks[i]
    IN  /\ i \in 1..Len(tasks)
        /\ tasks' = Remove(tasks, i)
        /\ done' = [t EXCEPT !.exc = "ServiceError", !.steps = Append(@, "raise")]
        /\ UNCHANGED <<kind, controller, device_data, overlapping,
                       current_temperature, hvac_mode, fan_mode,
                       target_temperature, state, source, ha_state>>
        /\ UNCHANGED <<setup_vars, flow_vars, tx_vars>>

Next ==
    \/ \E m \in HVACModes : async_set_hvac_mode(m)
    \/ \E t \in Temperatures : async_set_temperature(t)
    \/ async_set_temperature_none
    \/ \E f \in FanModes : async_set_fan_mode(f)
    \/ async_turn_on
    \/ async_turn_off
    \/ async_volume_up
    \/ async_volume_down
    \/ \E mute \in BOOLEAN : async_mute_volume(mute)
    \/ async_media_play
    \/ async_media_pause
    \/ async_media_stop
    \/ \E src \in Sources : async_select_source(src)
    \/ \E i \in 1..Len(tasks) : ServiceCallReturns(i)
    \/ \E i \in 1..Len(tasks) : ServiceCallFails(i)

Spec == Init /\ [][Next]_vars

---------------------------------------------------------------------------
(* climate.py and media_player.py async_setup_entry: the platform loads    *)
(* the device file of the config entry and registers one entity.           *)

\* What is at json_path: no file; a file whose bytes are no UTF-8 text; a
\* text that is no JSON; a JSON document that is a list; a JSON object.
FileKinds == {"missing", "not_utf8", "not_json", "json_array", "json_object"}

\* with open(json_path, "r") as f: device_data = json.load(f): the exception
\* it raises, "none" when it returns the document
load_exception(f) ==
    CASE f = "missing"  -> "FileNotFoundError"
      [] f = "not_utf8" -> "UnicodeDecodeError"
      [] f = "not_json" -> "JSONDecodeError"
      [] OTHER          -> "none"

\* except (FileNotFoundError, json.JSONDecodeError)
Caught == {"FileNotFoundError", "JSONDecodeError"}

async_setup_entry ==
    LET exc == load_exception(file)
    IN  /\ setup = "pending"
        /\ UNCHANGED <<kind, controller, file, overlapping, tasks, done, ha_state>>
        /\ UNCHANGED <<flow_vars, tx_vars>>
        /\ CASE exc \in Caught ->
                  \* _LOGGER.error(...); return
                  /\ log' = Append(log, exc)
                  /\ setup' = "returned"
                  /\ UNCHANGED <<device_data, hvac_mode, fan_mode, target_temperature,
                                 current_temperature, state, source, entities>>
             [] exc \notin Caught \cup {"none"} ->
                  \* the exception leaves async_setup_entry
                  /\ setup' = exc
                  /\ UNCHANGED <<device_data, hvac_mode, fan_mode, target_temperature,
                                 current_temperature, state, source, entities, log>>
             [] exc = "none" /\ file = "json_array" ->
                  \* __init__: device_data.get(...) of a list
                  /\ setup' = "AttributeError"
                  /\ UNCHANGED <<device_data, hvac_mode, fan_mode, target_temperature,
                                 current_temperature, state, source, entities, log>>
             [] OTHER ->
                  \* __init__ and async_add_entities([device])
                  /\ \E i \in 1..Len(ClimateTables) : \E j \in 1..Len(MediaTables) :
                        device_data' = IF kind = "climate" THEN ClimateTables[i]
                                       ELSE MediaTables[j]
                  /\ hvac_mode' = "HVACMode.OFF"
                  /\ target_temperature' = InitialTargetTemperature
                  /\ fan_mode' = InitialFanMode(device_data')
                  /\ current_temperature' = <<>>
                  /\ state' = "off"
                  /\ source' = NoSource
                  /\ entities' = Append(entities, kind)
                  /\ setup' = "returned"
                  /\ UNCHANGED log

\* before setup: no entity, no table
InitSetup ==
    /\ kind \in {"climate", "media_player"}
    /\ controller \in Controllers
    /\ file \in FileKinds
    /\ setup = "pending"
    /\ entities = <<>>
    /\ log = <<>>
    /\ device_data = <<>>
    /\ hvac_mode = "HVACMode.OFF"
    /\ target_temperature = InitialTargetTemperature
    /\ current_temperature = <<>>
    /\ fan_mode = "auto"
    /\ state = "off"
    /\ source = NoSource
    /\ ha_state = <<>>
    /\ tasks = <<>>
    /\ done = NoRequest
    /\ overlapping = FALSE
    /\ FlowIdle
    /\ TxIdle

\* setup, and then the requests of an entity that was registered
NextSetup ==
    \/ async_setup_entry
    \/ \E m \in HVACModes : async_set_hvac_mode(m)
    \/ async_turn_on
    \/ async_turn_off
    \/ \E src \in Sources : async_select_source(src)
    \/ \E i \in 1..Len(tasks) : ServiceCallReturns(i)
    \/ \E i \in 1..Len(tasks) : ServiceCallFails(i)

SpecSetup == InitSetup /\ [][NextSetup]_vars

---------------------------------------------------------------------------
(* The climate entity with its temperature sensor: requests one at a time, *)
(* and the sensor callback whenever the sensor changes, also while a       *)
(* request is suspended at its service call.                               *)

LoopModes == {"HVACMode.OFF", "HVACMode.COOL"}

LoopTemperatures == {240, 250}

InitSensor ==
    /\ kind = "climate"
    /\ controller \in Controllers
    /\ device_data \in {ClimateRich, ClimateCoolOnly}
    /\ hvac_mode = "HVACMode.OFF"
    /\ target_temperature = InitialTargetTemperature
    /\ current_temperature = <<>>
    /\ fan_mode = InitialFanMode(device_data)
    /\ state = "off"
    /\ source = NoSource
    /\ ha_state = <<>>
    /\ tasks = <<>>
    /\ done = NoRequest
    /\ overlapping = FALSE
    /\ SetUp
    /\ FlowIdle
    /\ TxIdle

NextSensor ==
    \/ \E m \in LoopModes : async_set_hvac_mode(m)
    \/ \E t \in LoopTemperatures : async_set_temperature(t)
    \/ \E i \in 1..Len(SensorEvents) : on_temp_sensor_change(i)
    \/ \E i \in 1..Len(tasks) : ServiceCallReturns(i)
    \/ \E i \in 1..Len(tasks) : ServiceCallFails(i)

SpecSensor == InitSensor /\ [][NextSensor]_vars

---------------------------------------------------------------------------
(* The event loop with requests that overlap: while a request is suspended *)
(* at its service call the loop runs the other requests and the sensor     *)
(* callbacks that are due.  One climate entity or one media player, a few  *)
(* requests each.                                                          *)

\* the sensor events of the loop: no new state, "21.5", "abc"
LoopEvents == {i \in 1..Len(SensorEvents) :
                  SensorEvents[i] \in {<<>>, << <<"2", "1", ".", "5">> >>,
                                       << <<"a", "b", "c">> >>}}

InitLoop ==
    /\ kind \in {"climate", "media_player"}
    /\ controller \in Controllers
    /\ device_data = IF kind = "climate" THEN ClimateRich ELSE MediaRich
    /\ hvac_mode = "HVACMode.OFF"
    /\ target_temperature = InitialTargetTemperature
    /\ current_temperature = <<>>
    /\ fan_mode = InitialFanMode(device_data)
    /\ state = "off"
    /\ source = NoSource
    /\ ha_state = <<>>
    /\ tasks = <<>>
    /\ done = NoRequest
    /\ overlapping = TRUE
    /\ SetUp
    /\ FlowIdle
    /\ TxIdle

NextLoop ==
    \/ \E m \in LoopModes : async_set_hvac_mode(m)
    \/ \E t \in LoopTemperatures : async_set_temperature(t)
    \/ async_turn_on
    \/ async_turn_off
    \/ \E i \in LoopEvents : on_temp_sensor_change(i)
    \/ \E i \in 1..Len(tasks) : ServiceCallReturns(i)
    \/ \E i \in 1..Len(tasks) : ServiceCallFails(i)

SpecLoop == InitLoop /\ [][NextLoop]_vars

---------------------------------------------------------------------------
(* config_flow.py: the setup wizard, steps user -> controller -> test.     *)
(* Device codes, search texts and labels are character sequences.          *)

DEVICE_TYPES == {"climate", "media_player"}

\* the device codes of the repository and their manufacturers
Catalogue ==
    << [code |-> <<"1", "0">>, manufacturer |-> <<"L", "G">>],
       [code |-> <<"2", "0">>, manufacturer |-> <<"S", "o", "n", "y">>] >>

\* the place of a device code in the catalogue (and of its file in disk)
CodeIndex(code) == CHOOSE i \in 1..Len(Catalogue) : Catalogue[i].code = code

\* what a code file that parses holds, by device type
FileTable(device_type) ==
    IF device_type = "climate" THEN ClimateRich ELSE MediaPowerOnly

LowerChar(c) ==
    CASE c = "L" -> "l"
      [] c = "G" -> "g"
      [] c = "S" -> "s"
      [] OTHER   -> c

\* s.lower()
Lower(cs) == [i \in 1..Len(cs) |-> LowerChar(cs[i])]

\* needle in hay
Contains(hay, needle) ==
    \E i \in 0..(Len(hay) - Len(needle)) : SubSeq(hay, i + 1, i + Len(needle)) = needle

Option(value, label) == [value |-> value, label |-> label]

\* utils.py get_device_codes: one option for every file that parses, in the
\* order of the codes; the label holds the code and then the manufacturer
get_device_codes(dsk) ==
    LET idx == SelectSeq([i \in 1..Len(Catalogue) |-> i], LAMBDA i : dsk[i] = "ok")
    IN  [k \in 1..Len(idx) |->
            Option(Catalogue[idx[k]].code,
                   Catalogue[idx[k]].code \o <<" ">> \o Catalogue[idx[k]].manufacturer)]

\* the options for the entries of the index that are in no local option; the
\* label holds the manufacturer and then the code
cloud_options(cloud_data, local_options) ==
    LET fresh == SelectSeq(cloud_data,
                    LAMBDA e : \A k \in 1..Len(local_options) :
                                   local_options[k].value # e.code)
    IN  [k \in 1..Len(fresh) |->
            Option(fresh[k].code, fresh[k].manufacturer \o <<" ">> \o fresh[k].code)]

\* the options the search text keeps
filtered_options(cache, search) ==
    SelectSeq(cache, LAMBDA opt : \/ Contains(Lower(opt.label), Lower(search))
                                  \/ Contains(opt.value, Lower(search)))

\* async_step_controller, from "Fetch Data & Build Form" on: the cache is
\* filled when it is empty (downloader.py get_available_codes gives the index
\* or, when the request fails, nothing), the options are filtered by the
\* search text and the controller form is shown with the errors.
ShowController(current_search, errs, dsk) ==
    /\ \E cloud_data \in IF cached_all_codes = <<>> THEN {<<>>, Catalogue} ELSE {<<>>} :
          cached_all_codes' =
              IF cached_all_codes # <<>> THEN cached_all_codes
              ELSE get_device_codes(dsk) \o cloud_options(cloud_data, get_device_codes(dsk))
    /\ LET shown == IF current_search # <<>>
                    THEN filtered_options(cached_all_codes', current_search)
                    ELSE <<>>
       IN  /\ form_options' = {shown[k].value : k \in 1..Len(shown)}
           /\ errors' = IF current_search # <<>> /\ shown = <<>>
                        THEN "no_codes_found" ELSE errs
    /\ step' = "controller"

\* async_step_test without user input: the file of the selected code is
\* read; the flow aborts when it cannot be, otherwise the test form is shown
ShowTest(dsk) ==
    /\ step' = IF dsk[CodeIndex(selected_code')] = "ok" THEN "test" ELSE "aborted"
    /\ errors' = ""
    /\ UNCHANGED <<cached_all_codes, form_options>>

async_step_user(device_type) ==
    /\ step = "user"
    /\ init_info' = << KV("name", "AC"), KV("device_type", device_type) >>
    /\ ShowController(last_search_query, "", disk)
    /\ last' = Submission("user", "", "none")
    /\ UNCHANGED <<last_search_query, selected_controller, selected_sensor,
                   selected_code, disk, entry, flow_call, picked>>
    /\ UNCHANGED <<entity_vars, setup_vars, tx_vars>>

\* as after_selection, with the test step entered whatever the download did
after_selection_unchecked(exists, success) == "test"

\* where a selection leads: to the test step when the file exists or was
\* downloaded, back to the controller form when the download failed
after_selection(exists, success) ==
    IF ~exists
    THEN IF ~success THEN "controller" ELSE "test"
    ELSE "test"

\* how downloader.py download_device_code may end: it fails and writes
\* nothing, or it writes the body it received, which parses or does not
Downloads == {"failed", "ok", "corrupt"}

async_step_controller(user_input) ==
    LET new_search == Strip(user_input.search)
        i == CodeIndex(user_input.code)
    IN  /\ step = "controller"
        /\ user_input.code = <<>> \/ user_input.code \in form_options
        /\ selected_controller' = user_input.controller
        /\ selected_sensor' = user_input.sensor
        /\ picked' = user_input
        /\ UNCHANGED <<init_info, entry, flow_call>>
        /\ UNCHANGED <<entity_vars, setup_vars, tx_vars>>
        /\ CASE Lower(new_search) # Lower(last_search_query) ->
                  /\ last_search_query' = new_search
                  /\ ShowController(new_search, "", disk)
                  /\ last' = Submission("controller", "", "none")
                  /\ UNCHANGED <<selected_code, disk>>
             [] Lower(new_search) = Lower(last_search_query) /\ user_input.code # <<>> ->
                  /\ selected_code' = user_input.code
                  /\ UNCHANGED last_search_query
                  /\ IF disk[i] # "absent"
                     THEN /\ last' = Submission("controller", "", "none")
                          /\ UNCHANGED disk
                          /\ ShowTest(disk)
                     ELSE \E download \in Downloads :
                          /\ last' = Submission("controller", "", download)
                          /\ disk' = IF download = "failed" THEN disk
                                     ELSE [disk EXCEPT ![i] = download]
                          /\ IF after_selection(FALSE, download # "failed") = "test"
                             THEN ShowTest(disk')
                             ELSE ShowController(last_search_query, "download_failed",
                                                 disk')
             [] OTHER ->
                  /\ ShowController(last_search_query, "", disk)
                  /\ last' = Submission("controller", "", "none")
                  /\ UNCHANGED <<last_search_query, selected_code, disk>>

\* the actions the test form offers
test_options(device_type, commands) ==
    IF device_type = "media_player"
    THEN {"save", "back"}
         \cup (IF Has(commands, "power") \/ Has(commands, "on") THEN {"test_on"} ELSE {})
         \cup (IF Has(commands, "off") THEN {"test_off"} ELSE {})
         \cup (IF Has(commands, "volumeUp") THEN {"test_volumeUp"} ELSE {})
         \cup (IF Has(commands, "mute") THEN {"test_mute"} ELSE {})
    ELSE {"save", "back", "test_cool"}
         \cup (IF Has(commands, "off") THEN {"test_off"} ELSE {})

\* action.replace("test_", "")
cmd_key_of(action) ==
    CASE action = "test_on" -> "on"
      [] action = "test_off" -> "off"
      [] action = "test_volumeUp" -> "volumeUp"
      [] action = "test_mute" -> "mute"
      [] action = "test_cool" -> "cool"

\* the code a test action sends: for a media player the value under the
\* key; for climate "off", or for "cool" the first temperature of the first
\* fan of the first mode
test_raw_code(device_type, commands, cmd_key) ==
    IF device_type = "media_player" THEN GetOr(commands, cmd_key, None)
    ELSE IF cmd_key = "off" THEN GetOr(commands, "off", None)
    ELSE LET modes == SelectSeq(Keys(commands), LAMBDA k : k # "off")
         IN  IF modes = <<>> THEN None
             ELSE LET fans == Get(commands, modes[1])
                  IN  IF fans = <<>> THEN None
                      ELSE IF fans[1].v = <<>> THEN None
                      ELSE fans[1].v[1].v

\* the service call of a test action: a string is sent as a list of one, and
\* every code goes behind "b64:" unless it starts with it
test_send(raw_code, ctl) ==
    LET lst == IF raw_code.ty = "str" THEN <<raw_code>> ELSE raw_code.items
    IN  << [domain |-> "remote", service |-> "send_command", entity_id |-> ctl,
            command |-> [k \in 1..Len(lst) |->
                            IF ~StartsWith(lst[k].chars, B64)
                            THEN JStr(B64 \o lst[k].chars)
                            ELSE lst[k]]] >>

async_step_test(action) ==
    LET device_type == Get(init_info, "device_type")
        commands == GetOr(FileTable(device_type), "commands", <<>>)
        raw_code == test_raw_code(device_type, commands, cmd_key_of(action))
    IN  /\ step = "test"
        /\ action \in test_options(device_type, commands)
        /\ last' = Submission("test", action, "none")
        /\ UNCHANGED <<init_info, last_search_query, selected_controller,
                       selected_sensor, selected_code, disk, picked>>
        /\ UNCHANGED <<entity_vars, setup_vars, tx_vars>>
        /\ CASE disk[CodeIndex(selected_code)] # "ok" ->
                  /\ step' = "aborted"
                  /\ UNCHANGED <<cached_all_codes, form_options, errors, entry, flow_call>>
             [] disk[CodeIndex(selected_code)] = "ok" /\ action = "save" ->
                  /\ entry' = << init_info
                                 \o << KV("controller_entity", selected_controller),
                                       KV("device_code", selected_code),
                                       KV("temperature_sensor", selected_sensor) >> >>
                  /\ step' = "created"
                  /\ UNCHANGED <<cached_all_codes, form_options, errors, flow_call>>
             [] disk[CodeIndex(selected_code)] = "ok" /\ action = "back" ->
                  /\ ShowController(last_search_query, "", disk)
                  /\ UNCHANGED <<entry, flow_call>>
             [] OTHER ->
                  /\ IF Truthy(raw_code)
                     THEN /\ flow_call' = test_send(raw_code, selected_controller)
                          /\ errors' = ""
                     ELSE /\ errors' = "cmd_not_found"
                          /\ UNCHANGED flow_call
                  /\ UNCHANGED <<step, cached_all_codes, form_options, entry>>

FlowControllers == {"remote.rm4_mini", "remote.rm_pro"}

FlowSensors == {NoneKey, "sensor.room"}

\* "", "lg", "LG", " 2" and "x"
Searches == {<<>>, <<"l", "g">>, <<"L", "G">>, <<" ", "2">>, <<"x">>}

\* the codes a submission of the controller form may carry
FlowCodes == {<<>>} \cup {Catalogue[i].code : i \in 1..Len(Catalogue)}

TestActions == {"save", "back", "test_on", "test_off", "test_volumeUp", "test_mute",
                "test_cool"}

\* a flow was started: the user form is shown; the first code of the
\* catalogue may be on disk already, as a file that parses or one that does not
InitFlow ==
    /\ kind = "climate"
    /\ controller \in Controllers
    /\ device_data = <<>>
    /\ hvac_mode = "HVACMode.OFF"
    /\ target_temperature = InitialTargetTemperature
    /\ current_temperature = <<>>
    /\ fan_mode = "auto"
    /\ state = "off"
    /\ source = NoSource
    /\ ha_state = <<>>
    /\ tasks = <<>>
    /\ done = NoRequest
    /\ overlapping = FALSE
    /\ file = "missing"
    /\ setup = "pending"
    /\ entities = <<>>
    /\ log = <<>>
    /\ step = "user"
    /\ init_info = <<>>
    /\ last_search_query = <<>>
    /\ cached_all_codes = <<>>
    /\ selected_controller = NoneKey
    /\ selected_sensor = NoneKey
    /\ selected_code = <<>>
    /\ errors = ""
    /\ form_options = {}
    /\ \E first \in {"absent", "ok", "corrupt"} : disk = <<first, "absent">>
    /\ entry = <<>>
    /\ flow_call = <<>>
    /\ picked = NoInput
    /\ last = NoSubmission
    /\ TxIdle

NextFlow ==
    \/ \E device_type \in DEVICE_TYPES : async_step_user(device_type)
    \/ \E ctl \in FlowControllers : \E sensor \in FlowSensors :
       \E search \in Searches : \E code \in FlowCodes :
          async_step_controller(Input(ctl, sensor, search, code))
    \/ \E action \in TestActions : async_step_test(action)

SpecFlow == InitFlow /\ [][NextFlow]_vars

---------------------------------------------------------------------------
(* The transmitters alone: a code value is drawn, one of the two           *)
(* transmitters sends it, and then sends either the same string wrapped in *)
(* a one-element list or its own payload once more.                        *)

Alphabet == {"b", "6", "4", ":", "A"}

\* every code string of at most MaxLen characters
TxStrings == UNION {[1..n -> Alphabet] : n \in 0..MaxLen}

\* lists: empty, mixed prefixed and unprefixed, with an item that is no string
TxLists ==
    << JList(<<>>),
       JList(<<JStr(<<"A", "A">>), JStr(B64 \o <<"A">>)>>),
       JList(<<JStr(B64), JStr(<<>>), JStr(<<"b", "6", "4">>)>>),
       JList(<<JNum(<<"7">>), JStr(<<":", "A">>)>>) >>

Sent(how, calls) == [how |-> how, calls |-> calls]

InitTx ==
    /\ kind = "climate"
    /\ controller \in Controllers
    /\ device_data = ClimateOffOnly
    /\ hvac_mode = "HVACMode.OFF"
    /\ target_temperature = InitialTargetTemperature
    /\ current_temperature = <<>>
    /\ fan_mode = InitialFanMode(device_data)
    /\ state = "off"
    /\ source = NoSource
    /\ ha_state = <<>>
    /\ tasks = <<>>
    /\ done = NoRequest
    /\ overlapping = FALSE
    /\ SetUp
    /\ FlowIdle
    /\ \/ \E cs \in TxStrings : tx_code = JStr(cs)
       \/ \E i \in 1..Len(TxLists) : tx_code = TxLists[i]
    /\ tx_by = "none"
    /\ tx_call = <<>>

\* the value the second transmission is made with
TxSecond(how) ==
    IF how = "wrapped" THEN JList(<<tx_code>>) ELSE JList(tx_call[1].calls[1].command)

climate_tx ==
    /\ tx_by = "none"
    /\ tx_by' = "climate"
    /\ tx_call' = <<Sent("given", climate_send_command(tx_code, controller))>>
    /\ UNCHANGED <<tx_code, entity_vars, setup_vars, flow_vars>>

climate_tx_wrapped ==
    /\ tx_by = "climate" /\ Len(tx_call) = 1 /\ tx_code.ty = "str"
    /\ tx_call' = Append(tx_call,
          Sent("wrapped", climate_send_command(TxSecond("wrapped"), controller)))
    /\ UNCHANGED <<tx_code, tx_by, entity_vars, setup_vars, flow_vars>>

climate_tx_again ==
    /\ tx_by = "climate" /\ Len(tx_call) = 1
    /\ tx_call' = Append(tx_call,
          Sent("again", climate_send_command(TxSecond("again"), controller)))
    /\ UNCHANGED <<tx_code, tx_by, entity_vars, setup_vars, flow_vars>>

media_tx ==
    /\ tx_by = "none"
    /\ tx_by' = "media_player"
    /\ tx_call' = <<Sent("given", media_send_raw_code(tx_code, controller))>>
    /\ UNCHANGED <<tx_code, entity_vars, setup_vars, flow_vars>>

media_tx_wrapped ==
    /\ tx_by = "media_player" /\ Len(tx_call) = 1 /\ tx_code.ty = "str"
    /\ tx_call' = Append(tx_call,
          Sent("wrapped", media_send_raw_code(TxSecond("wrapped"), controller)))
    /\ UNCHANGED <<tx_code, tx_by, entity_vars, setup_vars, flow_vars>>

media_tx_again ==
    /\ tx_by = "media_player" /\ Len(tx_call) = 1
    /\ tx_call' = Append(tx_call,
          Sent("again", media_send_raw_code(TxSecond("again"), controller)))
    /\ UNCHANGED <<tx_code, tx_by, entity_vars, setup_vars, flow_vars>>

NextTx ==
    \/ climate_tx
    \/ climate_tx_wrapped
    \/ climate_tx_again
    \/ media_tx
    \/ media_tx_wrapped
    \/ media_tx_again

SpecTx == InitTx /\ [][NextTx]_vars

---------------------------------------------------------------------------
(* Properties *)

OFF == "HVACMode.OFF"

\* the table's commands ({} when the table has none)
Commands == GetOr(device_data, "commands", <<>>)

\* P holds of the request that finished last and of every suspended request
AllReq(P(_)) == P(done) /\ \A i \in 1..Len(tasks) : P(tasks[i])

AnyReq(P(_)) == P(done) \/ \E i \in 1..Len(tasks) : P(tasks[i])

\* the request ran the resolver
Resolved(r) == \E i \in 1..Len(r.steps) : r.steps[i] = "resolve"

\* a climate request that ran the resolver
Climate(r) == r.op \in ClimateOps /\ Resolved(r)

\* a code value as the list of its codes
Codes(code) == IF code.ty = "str" THEN <<code>> ELSE code.items

\* the payload holds the codes of the code value, one for one and in order,
\* each as it is or behind the b64: prefix
Carries(command, code) ==
    /\ Len(command) = Len(Codes(code))
    /\ \A i \in 1..Len(command) :
          \/ command[i] = Codes(code)[i]
          \/ /\ Codes(code)[i].ty = "str"
             /\ command[i] = JStr(B64 \o Codes(code)[i].chars)

\* the request made exactly one service call, and it carries the code value
Transmits(r, code) ==
    /\ r.code = code
    /\ Len(r.calls) = 1
    /\ Carries(r.calls[1].command, code)

\* C1: a climate lookup never raises to the caller: no request ends with a
\* KeyError or an IndexError of the lookup.
C1_LookupNeverRaises ==
    AllReq(LAMBDA r : Climate(r) => r.exc \notin {"KeyError", "IndexError"})

\* the "off" entry of the table (None when there is none)
OffEntry == GetOr(Commands, "off", None)

\* a climate request resolved while the mode is off
OffRequest(r) == Climate(r) /\ r.at.hvac_mode = OFF

\* the off case looks at commands.off and at nothing below a mode
OffPath(r) == r.path \in {<<"commands">>, <<"commands", "off">>}

\* C2 as stated: with the mode off a request transmits exactly the "off" entry
\* when the table has one and transmits nothing when it has none; the nested
\* structure is not consulted.
C2_OffEntryTransmitted ==
    AllReq(LAMBDA r : OffRequest(r) =>
        /\ Has(Commands, "off") => Transmits(r, OffEntry)
        /\ ~Has(Commands, "off") => r.calls = <<>>
        /\ OffPath(r))

\* C2 as amended: with the mode off a request transmits exactly the "off"
\* entry when the table has one that is not empty, and transmits nothing when
\* the entry is absent or empty ("" or []); the nested structure is not
\* consulted.
C2_NonEmptyOffEntryTransmitted ==
    AllReq(LAMBDA r : OffRequest(r) =>
        /\ Truthy(OffEntry) => Transmits(r, OffEntry)
        /\ ~Truthy(OffEntry) => r.calls = <<>>
        /\ OffPath(r))

\* an off request is suspended at the call that carries a two-code "off" entry
C2_Witness ==
    \E i \in 1..Len(tasks) :
        /\ OffRequest(tasks[i])
        /\ OffEntry.ty = "list" /\ Len(OffEntry.items) = 2
        /\ Len(tasks[i].calls) = 1

\* the table's keys that name the HVAC mode
ModeKeys(mode) ==
    {i \in 1..Len(Commands) :
        Commands[i].k # "off" /\ GetOr(HVAC_MODES_MAP, Commands[i].k, NoneKey) = mode}

\* a climate request resolved while the mode is not off
OnRequest(r) == Climate(r) /\ r.at.hvac_mode # OFF

\* C3 (for the stored values that are not empty): a request whose mode, fan
\* and temperature are in the table transmits the code stored at
\* commands[mode][fan][str(int(value))], whichever of its names the table
\* gives the mode.
C3_PresentTripleTransmitted ==
    AllReq(LAMBDA r : OnRequest(r) =>
        \A i \in ModeKeys(r.at.hvac_mode) :
            LET fans == Commands[i].v
                fan == r.at.fan_mode
                temp_key == temp_key_of(r.at.target_temperature)
            IN  (Has(fans, fan) /\ Has(Get(fans, fan), temp_key)
                    /\ Truthy(Get(Get(fans, fan), temp_key)))
                => Transmits(r, Get(Get(fans, fan), temp_key)))

\* C4 (for the stored values that are not empty): a request whose fan is not
\* under its mode, in a table whose mode has a fan, transmits the code stored
\* under the first fan of the mode whenever the temperature is under it.
C4_FirstFanSubstituted ==
    AllReq(LAMBDA r : OnRequest(r) =>
        \A i \in ModeKeys(r.at.hvac_mode) :
            LET fans == Commands[i].v
                temp_key == temp_key_of(r.at.target_temperature)
            IN  (~Has(fans, r.at.fan_mode) /\ Len(fans) > 0
                    /\ Has(fans[1].v, temp_key) /\ Truthy(Get(fans[1].v, temp_key)))
                => Transmits(r, Get(fans[1].v, temp_key)))

\* C5: a request made while the selected mode (not off) has no key in the
\* table's commands finds nothing and makes no service call.
C5_AbsentModeNeverTransmits ==
    AllReq(LAMBDA r : (OnRequest(r) /\ ModeKeys(r.at.hvac_mode) = {}) =>
        /\ r.calls = <<>>
        /\ r.code = None
        /\ r.exc = "none"
        /\ \A i \in 1..Len(r.steps) : r.steps[i] # "transmit")

\* a request in heat mode finished on a table that has "cool" and no "heat"
C5_Witness ==
    /\ OnRequest(done)
    /\ done.at.hvac_mode = "HVACMode.HEAT"
    /\ Has(Commands, "cool") /\ ~Has(Commands, "heat")
    /\ done.steps = <<"update", "resolve", "publish">>

\* the string starts with b64:
Prefixed(cs) ==
    Len(cs) >= 4 /\ cs[1] = "b" /\ cs[2] = "6" /\ cs[3] = "4" /\ cs[4] = ":"

\* the code value the k-th transmission was made with
TxGiven(k) == IF k = 1 THEN tx_code ELSE TxSecond(tx_call[k].how)

\* C6: either transmitter sends a code string that starts with "b64:"
\* unchanged and a string that lacks it behind exactly one "b64:", and sending
\* an already normalized payload again sends the same payload.
C6_PrefixIdempotent ==
    /\ \A k \in 1..Len(tx_call) :
          LET input == Codes(TxGiven(k))
              command == tx_call[k].calls[1].command
          IN  /\ Len(command) = Len(input)
              /\ \A i \in 1..Len(input) :
                    input[i].ty = "str" =>
                        IF Prefixed(input[i].chars)
                        THEN command[i] = input[i]
                        ELSE command[i] = JStr(<<"b", "6", "4", ":">> \o input[i].chars)
    /\ (Len(tx_call) = 2 /\ tx_call[2].how = "again") =>
          tx_call[2].calls[1].command = tx_call[1].calls[1].command

\* the media player transmitter sent "b64:A" and then its own payload again
C6_Witness ==
    /\ tx_by = "media_player"
    /\ tx_code = JStr(<<"b", "6", "4", ":", "A">>)
    /\ Len(tx_call) = 2 /\ tx_call[2].how = "again"
    /\ tx_call[1].calls[1].command = <<tx_code>>

\* C7: for either transmitter, sending the string s and sending the list [s]
\* make the same service calls with the same command payload.
C7_StringAsSingletonList ==
    (Len(tx_call) = 2 /\ tx_call[2].how = "wrapped") =>
        /\ tx_call[2].calls = tx_call[1].calls
        /\ Len(tx_call[1].calls[1].command) = 1

\* the climate transmitter sent "AA" and then ["AA"]
C7_Witness ==
    /\ tx_by = "climate"
    /\ tx_code = JStr(<<"A", "A">>)
    /\ Len(tx_call) = 2 /\ tx_call[2].how = "wrapped"
    /\ tx_call[2].calls[1].command = <<JStr(<<"b", "6", "4", ":", "A", "A">>)>>

\* the request invoked the transmitter
Transmitted(r) == \E i \in 1..Len(r.steps) : r.steps[i] = "transmit"

\* C8: a request makes at most one service call, and exactly one when it
\* invokes the transmitter: remote.send_command to the configured controller,
\* with every code of the code value in order; no request calls twice.
C8_OneCallPerRequest ==
    AllReq(LAMBDA r :
        /\ Len(r.calls) <= 1
        /\ Transmitted(r) <=> Len(r.calls) = 1
        /\ \A i \in 1..Len(r.calls) :
              /\ r.calls[i].domain = "remote"
              /\ r.calls[i].service = "send_command"
              /\ r.calls[i].entity_id = controller
              /\ Carries(r.calls[i].command, r.code))

\* turn off is suspended at its one call, which carries both codes of "off"
C8_Witness ==
    \E i \in 1..Len(tasks) :
        /\ tasks[i].op = "turn_off"
        /\ Len(tasks[i].calls) = 1
        /\ Len(tasks[i].calls[1].command) = 2
        /\ tasks[i].calls[1].entity_id = controller

\* the command key each media player handler asks for
ActionKey ==
    [op \in {"turn_on", "turn_off", "volume_up", "volume_down", "mute_volume",
             "media_play", "media_pause", "media_stop"} |->
        CASE op = "turn_on" -> "on"
          [] op = "turn_off" -> "off"
          [] op = "volume_up" -> "volumeUp"
          [] op = "volume_down" -> "volumeDown"
          [] op = "mute_volume" -> "mute"
          [] op = "media_play" -> "play"
          [] op = "media_pause" -> "pause"
          [] op = "media_stop" -> "stop"]

\* C9: a media player action transmits the value stored under its key; "on",
\* and only "on", whose value is absent or empty transmits the value of
\* "power"; any other miss, and "on" with no "power" either, transmits nothing.
C9_MediaResolution ==
    AllReq(LAMBDA r : r.op \in DOMAIN ActionKey =>
        LET stored == GetOr(Commands, ActionKey[r.op], None)
            power == GetOr(Commands, "power", None)
        IN  IF Truthy(stored) THEN Transmits(r, stored)
            ELSE IF r.op = "turn_on" /\ Truthy(power) THEN Transmits(r, power)
            ELSE r.calls = <<>>)

\* table {"commands": {"power": "GGHH"}}: turn on is suspended at the call
\* that carries b64:GGHH
C9_Witness ==
    \E i \in 1..Len(tasks) :
        /\ tasks[i].op = "turn_on"
        /\ ~Has(Commands, "on")
        /\ tasks[i].calls[1].command =
              <<JStr(<<"b", "6", "4", ":", "G", "G", "H", "H">>)>>

\* the attribute the request is to change held the requested value when the
\* resolver and the transmitter ran
FieldAt(r) ==
    CASE r.op = "set_hvac_mode" -> r.at.hvac_mode = r.arg.s
      [] r.op = "set_fan_mode" -> r.at.fan_mode = r.arg.s
      [] r.op = "set_temperature" -> r.at.target_temperature = r.arg.n
      [] r.op \in PowerOps -> r.at.state = r.arg.s
      [] r.op = "select_source" -> r.at.source = r.arg.s
      [] OTHER -> TRUE

StateChangeOps == ClimateOps \cup PowerOps \cup {"select_source"}

\* C10 as stated: in every state-change request that transmits, climate or
\* media player, the attribute is assigned first, then the resolver runs, then
\* the transmitter, then the state is published; the attribute holds the
\* requested value when the call is made.
C10_AssignResolveTransmitPublish ==
    AllReq(LAMBDA r : (r.op \in StateChangeOps /\ Transmitted(r)) =>
        /\ FieldAt(r)
        /\ r.steps \in {<<"update", "resolve", "transmit">>,
                        <<"update", "resolve", "transmit", "publish">>,
                        <<"update", "resolve", "transmit", "raise">>})

\* the attributes of a suspended media player request are still the ones the
\* resolver ran with
Unassigned(r) == state = r.at.state /\ source = r.at.source

\* C10 as amended: the steps a request takes are in this order.  Climate (set
\* mode, fan, temperature): assign the attribute, resolve, transmit if a code
\* was found, publish; the attribute holds the requested value when the call
\* is made.  Media player (turn on, turn off, select source): resolve,
\* transmit if a code was found, and only after the call returned assign the
\* attribute and publish; select source with an unknown source resolves and
\* does nothing more.  What a request publishes is the entity's attributes
\* with the requested value assigned.
C10_StepOrder ==
    /\ AllReq(LAMBDA r : Climate(r) =>
          /\ FieldAt(r)
          /\ r.steps \in {<<"update", "resolve", "transmit">>,
                          <<"update", "resolve", "transmit", "publish">>,
                          <<"update", "resolve", "transmit", "raise">>,
                          <<"update", "resolve", "publish">>,
                          <<"update", "resolve", "raise">>})
    /\ AllReq(LAMBDA r : r.op \in PowerOps =>
          r.steps \in {<<"resolve", "transmit">>,
                       <<"resolve", "transmit", "update", "publish">>,
                       <<"resolve", "transmit", "raise">>,
                       <<"resolve", "update", "publish">>})
    /\ AllReq(LAMBDA r : r.op = "select_source" =>
          r.steps \in {<<"resolve", "transmit">>,
                       <<"resolve", "transmit", "update", "publish">>,
                       <<"resolve", "transmit", "raise">>,
                       <<"resolve">>})
    /\ \A i \in 1..Len(tasks) :
          tasks[i].op \in PowerOps \cup {"select_source"} => Unassigned(tasks[i])
    /\ (tasks = <<>> /\ done.op \in StateChangeOps
            /\ done.steps # <<>> /\ done.steps[Len(done.steps)] = "publish") =>
          /\ ha_state = <<Snapshot>>
          /\ CASE done.op = "set_hvac_mode" -> hvac_mode = done.arg.s
               [] done.op = "set_fan_mode" -> fan_mode = done.arg.s
               [] done.op = "set_temperature" -> target_temperature = done.arg.n
               [] done.op \in PowerOps -> state = done.arg.s
               [] done.op = "select_source" -> source = done.arg.s

\* turn on is suspended at its service call while the state is still "off"
C10_Witness ==
    \E i \in 1..Len(tasks) :
        /\ tasks[i].op = "turn_on"
        /\ Len(tasks[i].calls) = 1
        /\ state = "off"

\* the entity's attribute holds the value the request asked for
FieldNow(r) ==
    CASE r.op = "set_hvac_mode" -> hvac_mode = r.arg.s
      [] r.op = "set_fan_mode" -> fan_mode = r.arg.s
      [] r.op = "set_temperature" -> target_temperature = r.arg.n
      [] r.op \in PowerOps -> state = r.arg.s
      [] r.op = "select_source" -> source = r.arg.s
      [] OTHER -> TRUE

\* C11 as stated: after a state-change request whose lookup misses (climate
\* mode, fan or temperature missing; media player on/off key missing; source
\* missing from sources) nothing was transmitted and the attribute holds the
\* requested value.
C11_NoRollbackOnMiss ==
    (tasks = <<>> /\ done.op \in StateChangeOps /\ Resolved(done)
        /\ done.calls = <<>>) =>
        /\ ~Transmitted(done)
        /\ FieldNow(done)

\* C11 as amended: after a climate request (mode, fan, temperature) or a turn
\* on / turn off whose lookup misses, nothing was transmitted and the
\* attribute holds the requested value, which is what was published, unless
\* the lookup raised; after a select source whose source is not in sources
\* nothing was transmitted, nothing was published and the source attribute
\* is the one it was before the request.
C11_NoRollbackExceptSource ==
    (tasks = <<>> /\ done.op \in StateChangeOps /\ Resolved(done)
        /\ done.calls = <<>>) =>
        /\ ~Transmitted(done)
        /\ done.op \in ClimateOps \cup PowerOps =>
              /\ FieldNow(done)
              /\ done.exc = "none" => ha_state = <<Snapshot>>
        /\ done.op = "select_source" =>
              /\ source = done.at.source
              /\ state = done.at.state
              /\ done.steps = <<"resolve">>
              /\ ~Has(GetOr(Commands, "sources", <<>>), done.arg.s)

\* in heat mode at 24 degrees the fan was set to "auto", which the table's
\* heat mode does not have, and the first fan of heat has no code for 24:
\* nothing was sent and the fan is the one asked for
C11_Witness ==
    /\ tasks = <<>>
    /\ done.op = "set_fan_mode" /\ done.arg.s = "auto"
    /\ done.at.hvac_mode = "HVACMode.HEAT"
    /\ Has(Commands, "heat")
    /\ Keys(Get(Commands, "heat")) # <<>>
    /\ ~Has(Get(Commands, "heat"), "auto")
    /\ done.calls = <<>> /\ done.exc = "none"
    /\ fan_mode = "auto"
    /\ ha_state = <<Snapshot>>

\* what float gives for the state strings of SensorEvents that are numbers,
\* in tenths; <<>> for an event that carries no number
Reading ==
    << <<>>, <<>>, <<>>, <<215>>, <<220>>, <<230>>, <<-35>>, <<>>, <<>>, <<>>, <<>> >>

\* C12: a sensor event that carries a numeric state other than "unavailable"
\* and "unknown" overwrites the current temperature with that value and
\* publishes the state; an event with no new state, an unavailable or
\* unknown state or a state that is no number leaves the current
\* temperature and the published state as they are; no event raises, and
\* every event leaves mode, fan, target temperature, code table and the
\* requests in flight unchanged and makes no service call.
C12_SensorEvent ==
    [][\A i \in 1..Len(SensorEvents) : on_temp_sensor_change(i) =>
          /\ Reading[i] # <<>> =>
                /\ current_temperature' = Reading[i]
                /\ ha_state' = <<Snapshot'>>
                /\ done'.steps = <<"update", "publish">>
          /\ Reading[i] = <<>> =>
                /\ UNCHANGED <<current_temperature, ha_state>>
                /\ done'.steps = <<>>
          /\ done'.exc = "none"
          /\ done'.calls = <<>>
          /\ UNCHANGED <<hvac_mode, fan_mode, target_temperature, device_data,
                         tasks, state, source>>]_vars

\* the sensor reported 21.5 while a request is suspended at its service
\* call: the current temperature is 21.5 and it is published
C12_Witness ==
    /\ done.op = "sensor_event"
    /\ SensorEvents[done.arg.n] = << <<"2", "1", ".", "5">> >>
    /\ current_temperature = <<215>>
    /\ ha_state = <<Snapshot>>
    /\ tasks # <<>>

\* C13: when the device file is missing or cannot be parsed, setup logs and
\* returns without registering an entity and without raising; an entity is
\* registered exactly when the file was loaded, and then exactly one.
C13_SetupLoadsOrLogs ==
    setup # "pending" =>
        /\ load_exception(file) # "none" =>
              /\ setup = "returned"
              /\ log # <<>>
              /\ entities = <<>>
        /\ entities # <<>> <=> load_exception(file) = "none"
        /\ Len(entities) <= 1

\* the request published when its service call had returned
PublishedAfterCall(r) ==
    /\ Transmitted(r)
    /\ r.steps # <<>> /\ r.steps[Len(r.steps)] = "publish"

\* C14: under any interleaving of requests and sensor events, nothing reads
\* or writes the entity's attributes while a request is suspended at its
\* service call (the attributes are the ones the request suspended with),
\* and what a request publishes when it resumes is the state it set before
\* it suspended (for turn on and turn off, with the state it assigns on
\* resuming).
C14_NoAccessWhileSuspended ==
    /\ \A i \in 1..Len(tasks) : Snapshot = tasks[i].at
    /\ (done.op \in ClimateOps /\ PublishedAfterCall(done)) =>
          ha_state = <<done.at>>
    /\ (done.op \in PowerOps /\ PublishedAfterCall(done)) =>
          ha_state = <<[done.at EXCEPT !.state = done.arg.s]>>

\* the file of the device code is on disk
OnDisk(code) == code # <<>> /\ disk[CodeIndex(code)] # "absent"

\* C15: in every run of the wizard a config entry is created only by the
\* save action of the test step; the test form is shown only for a selected
\* device code whose file is on disk (it was there, or was just downloaded);
\* a download that failed leaves the flow on the controller step with the
\* error download_failed; and the device code and the controller of the
\* entry are the ones of the last submission of the controller form.
C15_EntryOnlyBySave ==
    /\ entry # <<>> <=> step = "created"
    /\ entry # <<>> =>
          /\ last = Submission("test", "save", "none")
          /\ Get(entry[1], "device_code") = picked.code
          /\ Get(entry[1], "controller_entity") = picked.controller
          /\ OnDisk(picked.code)
    /\ step = "test" =>
          /\ selected_code = picked.code
          /\ OnDisk(selected_code)
          /\ last.download # "failed"
    /\ last.download = "failed" =>
          /\ step = "controller"
          /\ errors = "download_failed"
          /\ entry = <<>>
          /\ ~OnDisk(picked.code)

\* code 10 was on disk, code 20 was downloaded, a test command was sent, and
\* the entry was saved with code 20 and the controller remote.rm_pro
C15_Witness ==
    /\ entry # <<>>
    /\ Get(entry[1], "device_code") = <<"2", "0">>
    /\ Get(entry[1], "controller_entity") = "remote.rm_pro"
    /\ disk = <<"ok", "ok">>
    /\ flow_call # <<>>

\* C16: for every mode name m of operationModes that the map knows (cool,
\* heat, auto, dry, fan, fan_only), a request made with the host mode of m
\* selected, which the entity advertises, looks the table up under m itself
\* (HVAC_MODES_INV_MAP[HVAC_MODES_MAP[m]] = m), so that commands keyed by m
\* are found.
C16_ModeNameRoundTrip ==
    AllReq(LAMBDA r : OnRequest(r) =>
        LET names == advertised_mode_names(device_data)
        IN  \A k \in 1..Len(names) :
                (/\ names[k] # "off"
                 /\ Get(HVAC_MODES_MAP, names[k]) = r.at.hvac_mode
                 /\ \E j \in 1..Len(hvac_modes(device_data)) :
                        hvac_modes(device_data)[j] = r.at.hvac_mode
                 /\ Has(Commands, names[k]))
                => /\ mode_key_of(Get(HVAC_MODES_MAP, names[k])) = names[k]
                   /\ Len(r.path) > 2
                   /\ r.path[2] = names[k])

=============================================================================
